---- MODULE Spec2Model ----
(***************************************************************************)
(* The lottery-results scraper scripts of sv-results-kiosk.                *)
(*                                                                         *)
(* The repository holds six variants of one script:                        *)
(*   "p0"  src/unnamed/part_000          cheerio, one page, h2 sections    *)
(*   "p1"  src/unnamed/part_001          cheerio text, three pages         *)
(*   "p2"  src/unnamed/part_002          regex on raw html, one page       *)
(*   "p3"  src/unnamed/part_003          windows of the body text          *)
(*   "u1"  src/scripts/update-lottery.js lines 1-128, regex on raw html    *)
(*   "u2"  src/scripts/update-lottery.js lines 130-307, three pages        *)
(*                                                                         *)
(* A page is a sequence of blocks (sibling elements); a block is a         *)
(* sequence of tokens separated by white space.  A token is a word, a      *)
(* plain number, a number wrapped in a <div> (a "ball"), a clock time      *)
(* (8:30AM), a draw number (#37103), a currency amount ($39M) or a         *)
(* symbol (| + ? :).  Every regular expression of the source is modelled   *)
(* by the tokens it matches.                                               *)
(***************************************************************************)
EXTENDS Integers, Sequences, FiniteSets, TLC

(***************************************************************************)
(* Tokens                                                                  *)
(***************************************************************************)
W(s) == [k |-> "w", n |-> 0, s |-> s]
Num(n) == [k |-> "num", n |-> n, s |-> ""]
Ball(n) == [k |-> "ball", n |-> n, s |-> ""]
Clock(h, s) == [k |-> "time", n |-> h, s |-> s]
Hash(n) == [k |-> "hash", n |-> n, s |-> ""]
Amt(s) == [k |-> "amt", n |-> 0, s |-> s]
Sym(s) == [k |-> "sym", n |-> 0, s |-> s]

Block(tag, toks) == [tag |-> tag, toks |-> toks]

(***************************************************************************)
(* Sequence helpers                                                        *)
(***************************************************************************)
Min(a, b) == IF a < b THEN a ELSE b

Take(s, n) == SubSeq(s, 1, Min(n, Len(s)))

Drop(s, n) == SubSeq(s, n + 1, Len(s))

RECURSIVE Concat(_)
Concat(ss) == IF ss = <<>> THEN <<>> ELSE Head(ss) \o Concat(Tail(ss))

\* the numbers of a sequence of numeric tokens: map(Number)
Values(toks) == [i \in 1..Len(toks) |-> toks[i].n]

\* the words of the pages of which another word of the pages is a prefix
PrefixPairs == {<<"Results", "Result">>, <<"results", "result">>}

\* the text of token t starts with the text of token p
TokStartsWith(t, p) == t = p \/ (t.k = "w" /\ p.k = "w" /\ <<t.s, p.s>> \in PrefixPairs)

\* the string pat occurs in the string s at token i: the last token of pat
\* may be the beginning of a longer word of s
OccursAt(s, pat, i) ==
    /\ i + Len(pat) - 1 <= Len(s)
    /\ \A x \in 1..(Len(pat) - 1) : s[i + x - 1] = pat[x]
    /\ TokStartsWith(s[i + Len(pat) - 1], pat[Len(pat)])

\* the positions i >= from at which pat occurs in s
Occurrences(s, pat, from) == { i \in from..Len(s) : OccursAt(s, pat, i) }

SetMin(S) == CHOOSE x \in S : \A y \in S : x <= y

\* String.prototype.indexOf(pat, from) on token sequences: 0 stands for -1
IndexOf(s, pat, from) ==
    IF Occurrences(s, pat, from) = {} THEN 0 ELSE SetMin(Occurrences(s, pat, from))

(***************************************************************************)
(* Bounds of the model                                                     *)
(***************************************************************************)
MinBalls == 3
MaxBalls == 7
MaxDraws == 2

(***************************************************************************)
(* The pages the scripts are run against                                   *)
(***************************************************************************)
Games == <<"cash_pot", "lotto", "super_lotto">>

GameSet == {"cash_pot", "lotto", "super_lotto"}

\* the canonical session order of the site
Sessions == <<"EARLYBIRD", "MORNING", "MIDDAY", "MIDAFTERNOON", "DRIVETIME", "EVENING">>

SessionsUsed == {"EARLYBIRD", "MORNING", "EVENING"}

SessionRank(s) == CHOOSE i \in 1..Len(Sessions) : Sessions[i] = s

SessionVal(s) ==
    CASE s = "EARLYBIRD" -> 30 [] s = "MORNING" -> 0 [] s = "MIDDAY" -> 17
      [] s = "MIDAFTERNOON" -> 22 [] s = "DRIVETIME" -> 9 [] OTHER -> 12

SessionClock(s) ==
    CASE s = "EARLYBIRD" -> Clock(8, "8:30AM") [] s = "MORNING" -> Clock(10, "10:30AM")
      [] s = "MIDDAY" -> Clock(1, "1:00PM") [] s = "MIDAFTERNOON" -> Clock(3, "3:00PM")
      [] s = "DRIVETIME" -> Clock(5, "5:00PM") [] OTHER -> Clock(8, "8:25PM")

SessionHash(s) == Hash(37102 + SessionRank(s))

SessionLabel(s) == IF s = "EARLYBIRD" THEN "Fish" ELSE "Egg"

LottoBalls == <<7, 8, 18, 31, 32, 34, 24, 40>>

SuperBalls == <<2, 11, 21, 29, 35, 6, 9, 15>>

Arity(g) == IF g = "super_lotto" THEN 5 ELSE 6

Heading(g) ==
    CASE g = "cash_pot" -> <<W("Cash"), W("Pot"), W("Result")>>
      [] g = "lotto" -> <<W("Lotto"), W("Result")>>
      [] OTHER -> <<W("Super"), W("Lotto"), W("Result")>>

HistoryHeading(g) == Heading(g) \o <<W("History")>>

PlayMarker == <<W("What"), W("Play"), W("in"), W("Cash"), W("Pot"), W("Today")>>

\* the weekday of the last draw of a game: Lotto is drawn on Wednesday and
\* Saturday, Super Lotto on Tuesday and Friday, Cash Pot every day
DrawDay(g, dv) ==
    CASE g = "cash_pot" -> (IF dv = 1 THEN "Saturday" ELSE "Sunday")
      [] g = "lotto" -> (IF dv = 1 THEN "Saturday" ELSE "Wednesday")
      [] OTHER -> (IF dv = 1 THEN "Friday" ELSE "Tuesday")

DateBar(day) == <<W(day), Sym("|"), Num(14), W("February"), Num(2026)>>

DateComma(day) == <<Num(14), W("February"), Num(2026), Sym(","), W(day)>>

DateToks(fmt, day) == IF fmt = "bar" THEN DateBar(day) ELSE DateComma(day)

JackpotToks(j) ==
    CASE j = "colon" -> <<W("Next"), W("Jackpot"), Sym(":"), Amt("$39M")>>
      [] j = "plain" -> <<W("Next"), W("Jackpot"), W("JMD"), Num(39), W("million")>>
      [] OTHER -> <<>>

\* one Cash Pot draw as the site prints it; d.v is "num" (drawn), "unk" (the
\* site shows "?") or "none" (the value cell is missing)
DrawHead(d) == <<W(d.s), SessionClock(d.s), SessionHash(d.s)>>

DrawRest(d) ==
    CASE d.v = "num" -> <<Ball(SessionVal(d.s)), W(SessionLabel(d.s)), Sym("+"), W("white"),
                          Sym("+"), W("white")>>
      [] d.v = "unk" -> <<Sym("?"), W("Pending"), Sym("+"), Sym("?"), Sym("+"), Sym("?")>>
      [] OTHER -> <<>>

DrawBlocks(d, layout) ==
    CASE layout = "line" -> <<Block("div", DrawHead(d) \o DrawRest(d))>>
      [] layout = "pair" ->
            <<Block("div", DrawHead(d))>>
            \o (IF DrawRest(d) = <<>> THEN <<>> ELSE <<Block("div", DrawRest(d))>>)
      [] OTHER -> [i \in 1..Len(DrawHead(d) \o DrawRest(d)) |->
                      Block("div", <<(DrawHead(d) \o DrawRest(d))[i]>>)]

\* nb balls of a single-draw game, "+" before the bonus
BallToks(g, nb) ==
    LET src == IF g = "lotto" THEN LottoBalls ELSE SuperBalls
    IN  [i \in 1..Min(nb, Arity(g)) |-> Ball(src[i])]
        \o (IF nb > Arity(g)
            THEN <<Sym("+")>> \o [i \in 1..(nb - Arity(g)) |-> Ball(src[Arity(g) + i])]
            ELSE <<>>)

SectionBlocks(sc, g) ==
    IF ~sc.present[g] THEN <<>>
    ELSE <<Block("h2", Heading(g)), Block("div", DateToks(sc.fmt, DrawDay(g, sc.dv)))>>
         \o (IF g = "cash_pot"
             THEN Concat([i \in 1..Len(sc.draws) |-> DrawBlocks(sc.draws[i], sc.layout)])
             ELSE <<Block("div", BallToks(g, sc.nb[g]))>>
                  \o (IF sc.jack = "none" THEN <<>> ELSE <<Block("div", JackpotToks(sc.jack))>>))
         \o (IF sc.hist THEN <<Block("h2", HistoryHeading(g))>> ELSE <<>>)
         \o (IF g = "cash_pot" /\ sc.hist THEN <<Block("div", PlayMarker)>> ELSE <<>>)

Title == <<W("Jamaica"), W("Lotto"), W("Results")>>

\* the page of a scenario that shows the sections of the games in gs
PageFor(sc, gs) ==
    (IF sc.intro THEN <<Block("div", Title)>> ELSE <<>>)
    \o (IF "cash_pot" \in gs THEN SectionBlocks(sc, "cash_pot") ELSE <<>>)
    \o (IF sc.order = "LS"
        THEN (IF "lotto" \in gs THEN SectionBlocks(sc, "lotto") ELSE <<>>)
             \o (IF "super_lotto" \in gs THEN SectionBlocks(sc, "super_lotto") ELSE <<>>)
        ELSE (IF "super_lotto" \in gs THEN SectionBlocks(sc, "super_lotto") ELSE <<>>)
             \o (IF "lotto" \in gs THEN SectionBlocks(sc, "lotto") ELSE <<>>))

\* the body a web server sends with a non-OK status: no section at all
ErrorPage == <<Block("div", <<W("Service"), W("Unavailable")>>)>>

DrawSeqs ==
    LET E == [s : SessionsUsed, v : {"num", "unk", "none"}]
    IN  { q \in UNION { [1..n -> E] : n \in 1..MaxDraws } :
            \A i, j \in 1..Len(q) : i # j => q[i].s # q[j].s }

BaseScenario ==
    [intro |-> FALSE, dv |-> 1, order |-> "LS", hist |-> TRUE, fmt |-> "bar", jack |-> "colon",
     layout |-> "line", present |-> [g \in GameSet |-> TRUE],
     draws |-> <<[s |-> "EARLYBIRD", v |-> "num"]>>,
     nb |-> [g \in GameSet |-> IF g = "cash_pot" THEN MinBalls ELSE Arity(g) + 1]]

Scenarios ==
    { [BaseScenario EXCEPT !.present = p, !.order = o, !.nb = n] :
        p \in [GameSet -> BOOLEAN], o \in {"LS", "SL"},
        n \in { m \in [GameSet -> MinBalls..MaxBalls] : m["cash_pot"] = MinBalls } }
    \cup { [BaseScenario EXCEPT !.draws = q, !.layout = l] :
             q \in DrawSeqs, l \in {"line", "pair", "cells"} }
    \cup { [BaseScenario EXCEPT !.intro = i, !.hist = h, !.fmt = f, !.jack = j, !.dv = v] :
             v \in {1, 2}, i \in BOOLEAN, h \in BOOLEAN, f \in {"bar", "comma"},
             j \in {"colon", "plain", "none"} }


(***************************************************************************)
(* Text of markup, letter case, numeric matches                            *)
(***************************************************************************)
\* cheerio's .text() and the tag-stripping replace(/<[^>]*>/g, " "): the
\* wrapper of a ball is dropped and the number stays as plain text
TextTok(t) == IF t.k = "ball" THEN Num(t.n) ELSE t

TextOf(toks) == [i \in 1..Len(toks) |-> TextTok(toks[i])]

\* the raw markup of a page, and its text
HtmlOf(page) == Concat([i \in 1..Len(page) |-> page[i].toks])

BodyText(page) == TextOf(HtmlOf(page))

\* String.prototype.toLowerCase on the words of the pages
Lower(s) ==
    CASE s = "Lotto" -> "lotto" [] s = "Super" -> "super" [] s = "Cash" -> "cash"
      [] s = "Pot" -> "pot" [] s = "Result" -> "result" [] s = "History" -> "history"
      [] s = "Next" -> "next" [] s = "Jackpot" -> "jackpot" [] s = "Jamaica" -> "jamaica"
      [] s = "Results" -> "results" [] s = "JMD" -> "jmd" [] s = "Fish" -> "fish"
      [] s = "Egg" -> "egg" [] s = "Pending" -> "pending" [] s = "Saturday" -> "saturday"
      [] s = "February" -> "february" [] s = "EARLYBIRD" -> "earlybird"
      [] s = "MORNING" -> "morning" [] s = "MIDDAY" -> "midday"
      [] s = "MIDAFTERNOON" -> "midafternoon" [] s = "DRIVETIME" -> "drivetime"
      [] s = "EVENING" -> "evening" [] s = "What" -> "what" [] s = "Play" -> "play"
      [] s = "Sunday" -> "sunday" [] s = "Wednesday" -> "wednesday"
      [] s = "Friday" -> "friday" [] s = "Tuesday" -> "tuesday"
      [] s = "Today" -> "today" [] s = "Service" -> "service"
      [] s = "Unavailable" -> "unavailable" [] OTHER -> s

\* String.prototype.toUpperCase on the words of the pages
Upper(s) ==
    CASE s = "Lotto" -> "LOTTO" [] s = "Super" -> "SUPER" [] s = "Cash" -> "CASH"
      [] s = "Pot" -> "POT" [] s = "Result" -> "RESULT" [] s = "History" -> "HISTORY"
      [] s = "Next" -> "NEXT" [] s = "Jackpot" -> "JACKPOT" [] s = "Jamaica" -> "JAMAICA"
      [] s = "Results" -> "RESULTS" [] s = "Fish" -> "FISH" [] s = "Egg" -> "EGG"
      [] s = "Pending" -> "PENDING" [] s = "Saturday" -> "SATURDAY"
      [] s = "February" -> "FEBRUARY" [] s = "What" -> "WHAT" [] s = "Play" -> "PLAY"
      [] s = "in" -> "IN" [] s = "Today" -> "TODAY" [] s = "white" -> "WHITE"
      [] s = "million" -> "MILLION" [] s = "Service" -> "SERVICE"
      [] s = "Unavailable" -> "UNAVAILABLE" [] OTHER -> s

LowerToks(toks) == [i \in 1..Len(toks) |-> [toks[i] EXCEPT !.s = Lower(@)]]

\* /\b\d+\b/: a plain number, the hour of a clock time ("8" of "8:30AM";
\* "30AM" has no word boundary after the digits) and the digits after "#";
\* the digits of "$39M" are followed by a letter and do not match
IsInt(t) == t.k \in {"num", "time", "hash"}

\* /\b\d{1,2}\b/: as above, at most two digits
IsInt2(t) == t.k \in {"num", "time"} /\ t.n < 100

Weekdays == {"Monday", "Tuesday", "Wednesday", "Thursday", "Friday", "Saturday", "Sunday"}

Colors3 == {"gold", "red", "white"}

Colors7 == {"white", "red", "gold", "blue", "green", "yellow", "black"}

\* /[A-Za-z]+/ : a word
IsWord(t) == t.k = "w"

NullRec == [kind |-> "null"]

(***************************************************************************)
(* src/unnamed/part_000                                                    *)
(***************************************************************************)
\* the nodes after the first <h2> whose trimmed text is the heading, up to
\* the next <h2>; found = FALSE stands for null
getSectionNodes(page, headingText) ==
    LET hs == { i \in 1..Len(page) :
                  page[i].tag = "h2" /\ TextOf(page[i].toks) = headingText }
    IN  IF hs = {} THEN [found |-> FALSE, nodes |-> <<>>]
        ELSE LET h == SetMin(hs)
                 nx == { j \in (h + 1)..Len(page) : page[j].tag = "h2" }
                 e == IF nx = {} THEN Len(page) ELSE SetMin(nx) - 1
             IN  [found |-> TRUE, nodes |-> SubSeq(page, h + 1, e)]

\* the text of the first node that holds "|"; <<>> stands for null
extractDateFromNodes(nodes) ==
    LET ds == { i \in 1..Len(nodes) :
                  \E j \in 1..Len(nodes[i].toks) : nodes[i].toks[j] = Sym("|") }
    IN  IF ds = {} THEN <<>> ELSE TextOf(nodes[SetMin(ds)].toks)

NextJackpotColon == <<W("next"), W("jackpot"), Sym(":")>>

\* the text of the first node that holds "next jackpot:", from that label on
extractNextJackpotFromNodes(nodes) ==
    LET js == { i \in 1..Len(nodes) :
                  IndexOf(LowerToks(TextOf(nodes[i].toks)), NextJackpotColon, 1) # 0 }
    IN  IF js = {} THEN <<>>
        ELSE LET t == TextOf(nodes[SetMin(js)].toks)
             IN  Drop(t, IndexOf(LowerToks(t), NextJackpotColon, 1) - 1)

extractNumbersFromText(text) == Values(SelectSeq(text, IsInt))

\* bonus is a set: {} stands for null
parseSingleDraw(nodes) ==
    LET allText == Concat([i \in 1..Len(nodes) |-> TextOf(nodes[i].toks)])
        nums == extractNumbersFromText(allText)
    IN  IF Len(nums) >= 7 THEN [numbers |-> SubSeq(nums, 1, 6), bonus |-> {nums[7]}]
        ELSE IF Len(nums) >= 6 THEN [numbers |-> SubSeq(nums, 1, 6), bonus |-> {}]
        ELSE [numbers |-> nums, bonus |-> {}]

\* a draw entry; a field the variant does not fill is empty
Entry(session, clock, drawNo, value, label, colors) ==
    [session |-> session, clock |-> clock, drawNo |-> drawNo, value |-> value,
     label |-> label, colors |-> colors]

\* the value of the draw whose label starts line i: the first integer of the
\* next five lines, or null when a line with "?" comes first
LineValue(textLines, i) ==
    LET stop == { j \in (i + 1)..Min(i + 5, Len(textLines)) :
                    \/ \E k \in 1..Len(textLines[j]) : IsInt(textLines[j][k])
                    \/ \E k \in 1..Len(textLines[j]) : textLines[j][k] = Sym("?") }
    IN  IF stop = {} THEN {}
        ELSE LET c == textLines[SetMin(stop)]
             IN  IF \E k \in 1..Len(c) : IsInt(c[k])
                 THEN {extractNumbersFromText(c)[1]}
                 ELSE {}

parseMultiDraw(nodes) ==
    LET texts == [i \in 1..Len(nodes) |-> TextOf(nodes[i].toks)]
        textLines == SelectSeq(texts, LAMBDA t : t # <<>>)
        isHit(i) == /\ textLines[i][1].k = "w"
                    /\ \E l \in 1..Len(Sessions) : Upper(textLines[i][1].s) = Sessions[l]
        hits == SelectSeq([i \in 1..Len(textLines) |-> i], isHit)
        draws == [h \in 1..Len(hits) |->
                    Entry(Upper(textLines[hits[h]][1].s), {}, {},
                          LineValue(textLines, hits[h]), <<>>, <<>>)]
        done == { h \in 1..Len(draws) : draws[h].value # {} }
    IN  [draws |-> draws,
         latestComplete |-> IF done = {} THEN <<>>
                            ELSE <<draws[CHOOSE h \in done : \A x \in done : x <= h]>>]

\* the record of one game in updateLottery's loop
p0Record(page, g) ==
    LET sec == getSectionNodes(page, Heading(g))
    IN  IF ~sec.found THEN [kind |-> "error", heading |-> Heading(g)]
        ELSE IF g # "cash_pot"
        THEN [kind |-> "single", date |-> extractDateFromNodes(sec.nodes),
              numbers |-> parseSingleDraw(sec.nodes).numbers,
              bonus |-> parseSingleDraw(sec.nodes).bonus,
              jackpot |-> extractNextJackpotFromNodes(sec.nodes)]
        ELSE [kind |-> "multi", date |-> extractDateFromNodes(sec.nodes),
              latest |-> parseMultiDraw(sec.nodes).latestComplete,
              draws |-> parseMultiDraw(sec.nodes).draws]


(***************************************************************************)
(* src/unnamed/part_001                                                    *)
(***************************************************************************)
SetMax(S) == CHOOSE x \in S : \A y \in S : y <= x

\* the number of consecutive words of toks from position j on
WordRun(toks, j) ==
    SetMax({ e \in j..(Len(toks) + 1) : \A x \in j..(e - 1) : IsWord(toks[x]) }) - j

RECURSIVE LeadingTwo(_)
\* the number read from the first one or two digits of n
LeadingTwo(n) == IF n < 100 THEN n ELSE LeadingTwo(n \div 10)

normalizeText(page) == BodyText(page)

\* /([A-Za-z]+)\s*\|\s*(\d{1,2}\s+[A-Za-z]+\s+\d{4})/ at position i
BarDateAt(text, i) ==
    /\ i + 4 <= Len(text)
    /\ IsWord(text[i])
    /\ text[i + 1] = Sym("|")
    /\ text[i + 2].k = "num" /\ text[i + 2].n < 100
    /\ IsWord(text[i + 3])
    /\ text[i + 4].k = "num" /\ text[i + 4].n >= 1000

\* the position of the first date of the text, 0 when there is none
BarDateIndex(text) ==
    IF \E i \in 1..Len(text) : BarDateAt(text, i)
    THEN SetMin({ i \in 1..Len(text) : BarDateAt(text, i) })
    ELSE 0

\* /(\d{1,2})\s+ ... (\d{1,2})\s*\+\s*(\d{1,2})/ with cnt numbers before the
\* "+", at position i.  The pattern has no \b: its first group may be the
\* last two digits of a longer number, its last one the first two digits.
NumsPlusAt(text, i, cnt) ==
    /\ i + cnt + 1 <= Len(text)
    /\ text[i].k \in {"num", "hash"}
    /\ \A x \in (i + 1)..(i + cnt - 1) : text[x].k = "num" /\ text[x].n < 100
    /\ text[i + cnt] = Sym("+")
    /\ text[i + cnt + 1].k = "num"

parseLottoLike(text, headingLabel) ==
    LET d == BarDateIndex(text)
        afterDate == Drop(text, d - 1)
        ms == { i \in 1..Len(afterDate) : NumsPlusAt(afterDate, i, 6) }
        m == SetMin(ms)
        jk == { i \in 1..(Len(afterDate) - 3) :
                  /\ LowerToks(SubSeq(afterDate, i, i + 1)) = <<W("next"), W("jackpot")>>
                  /\ IsWord(afterDate[i + 2]) /\ Len(afterDate[i + 2].s) = 3 }
        j == SetMin(jk) + 2
        digits == SetMax({ e \in (j + 1)..(Len(afterDate) + 1) :
                     \A x \in (j + 1)..(e - 1) :
                        afterDate[x].k = "num" \/ afterDate[x] = Sym(",") })
        unit == IF digits <= Len(afterDate) /\ IsWord(afterDate[digits])
                   /\ Lower(afterDate[digits].s) \in {"million", "billion"}
                THEN 1 ELSE 0
    IN  IF d = 0 \/ ms = {} THEN NullRec
        ELSE [kind |-> "single",
              date |-> SubSeq(text, d, d + 4),
              numbers |-> [x \in 1..6 |-> IF x = 1 THEN afterDate[m].n % 100
                                          ELSE afterDate[m + x - 1].n],
              bonus |-> {LeadingTwo(afterDate[m + 7].n)},
              jackpot |-> IF jk = {} THEN <<>>
                          ELSE SubSeq(afterDate, j, digits - 1 + unit)]

\* drawRegex at position i: the set of the entry it matches there, if any
drawRegex(text, i) ==
    LET h == IF i + 2 <= Len(text) /\ text[i + 2].k = "hash" THEN 1 ELSE 0
        v == i + 2 + h
        w == WordRun(text, v + 1)
        c == v + 1 + w
        isColor(t) == t = Sym("?") \/ (IsWord(t) /\ Lower(t.s) \in Colors3)
        color(t) == IF t = Sym("?") THEN <<>> ELSE <<Lower(t.s)>>
    IN  IF /\ IsWord(text[i]) /\ \E l \in 1..Len(Sessions) : Upper(text[i].s) = Sessions[l]
           /\ i + 1 <= Len(text) /\ text[i + 1].k = "time"
           /\ v <= Len(text)
           /\ (text[v] = Sym("?") \/ (text[v].k = "num" /\ text[v].n < 100))
           /\ w >= 1
           /\ c + 3 <= Len(text)
           /\ text[c] = Sym("+") /\ isColor(text[c + 1])
           /\ text[c + 2] = Sym("+") /\ isColor(text[c + 3])
        THEN {Entry(Upper(text[i].s), {text[i + 1].s},
                    IF h = 1 THEN {text[i + 2].n} ELSE {},
                    IF text[v] = Sym("?") THEN {} ELSE {text[v].n},
                    [x \in 1..w |-> text[v + x].s],
                    color(text[c + 1]) \o color(text[c + 3]))}
        ELSE {}

\* the entries of all the matches of drawRegex in the text, in text order
drawRegexAll(text) ==
    LET hits == SelectSeq([i \in 1..Len(text) |-> i], LAMBDA i : drawRegex(text, i) # {})
    IN  [x \in 1..Len(hits) |-> CHOOSE e \in drawRegex(text, hits[x]) : TRUE]

parseCashPot(text) ==
    LET d == BarDateIndex(text)
        afterDate == Drop(text, d - 1)
        draws == drawRegexAll(afterDate)
    IN  IF d = 0 THEN NullRec
        ELSE [kind |-> "multi", date |-> SubSeq(text, d, d + 4),
              latest |-> IF Len(draws) > 0 THEN <<draws[Len(draws)]>> ELSE <<>>,
              draws |-> draws]

\* the record of one game in main's output; the default of an unparsed game
p1Record(page, g) ==
    LET r == IF g = "cash_pot" THEN parseCashPot(normalizeText(page))
             ELSE parseLottoLike(normalizeText(page),
                                 IF g = "lotto" THEN "Lotto" ELSE "Super Lotto")
    IN  IF r # NullRec THEN r
        ELSE IF g = "cash_pot"
        THEN [kind |-> "multi", date |-> <<>>, latest |-> <<>>, draws |-> <<>>]
        ELSE [kind |-> "single",
              date |-> <<>>, numbers |-> <<>>, bonus |-> {}, jackpot |-> <<>>]


(***************************************************************************)
(* src/unnamed/part_002                                                    *)
(***************************************************************************)
\* the part of text from the first start up to the first end after it,
\* start included; found = FALSE stands for null
extractBetween(text, start, end) ==
    LET st == IndexOf(text, start, 1)
        e == IndexOf(text, end, st + Len(start))
    IN  IF st = 0 THEN [found |-> FALSE, toks |-> <<>>]
        ELSE IF e = 0 THEN [found |-> FALSE, toks |-> <<>>]
        ELSE [found |-> TRUE, toks |-> SubSeq(text, st, e - 1)]

cleanText(section) == TextOf(section)

IsBall(t) == t.k = "ball" /\ t.n < 100

\* the numbers wrapped alone in a <div> or <span>
extractBallNumbers(section) == Values(SelectSeq(section, IsBall))

\* /\b(\d{1,2}\s+[A-Za-z]+\s+\d{4})/ at position i
DayMonthYearAt(text, i) ==
    /\ i + 2 <= Len(text)
    /\ text[i].k = "num" /\ text[i].n < 100
    /\ IsWord(text[i + 1])
    /\ text[i + 2].k = "num" /\ text[i + 2].n >= 1000

\* /\b(Monday|...|Sunday)\b\s*\|\s*(\d{1,2}\s+[A-Za-z]+\s+\d{4})/ at position i
WeekdayDateAt(text, i) ==
    /\ i + 4 <= Len(text)
    /\ IsWord(text[i]) /\ text[i].s \in Weekdays
    /\ text[i + 1] = Sym("|")
    /\ DayMonthYearAt(text, i + 2)

extractFullDate(section) ==
    LET full == { i \in 1..Len(section) : WeekdayDateAt(section, i) }
        part == { i \in 1..Len(section) : DayMonthYearAt(section, i) }
    IN  IF full # {} THEN cleanText(SubSeq(section, SetMin(full), SetMin(full) + 4))
        ELSE IF part # {} THEN cleanText(SubSeq(section, SetMin(part), SetMin(part) + 2))
        ELSE <<>>

\* /Next\s+Jackpot:\s*(\$\s?[0-9.,]+[A-Za-z]*)/i at position i
JackpotAmountAt(text, i) ==
    /\ i + 3 <= Len(text)
    /\ LowerToks(SubSeq(text, i, i + 2)) = NextJackpotColon
    /\ text[i + 3].k = "amt"

extractJackpot(section) ==
    LET js == { i \in 1..Len(section) : JackpotAmountAt(section, i) }
    IN  IF js = {} THEN <<>>
        ELSE <<W("Next"), W("Jackpot"), Sym(":"), section[SetMin(js) + 3]>>

IsSession(t) == IsWord(t) /\ \E l \in 1..Len(Sessions) : Upper(t.s) = Sessions[l]

extractCashPotDrawTime(section) ==
    LET ss == { i \in 1..Len(section) : IsSession(section[i]) }
    IN  IF ss = {} THEN "" ELSE Upper(section[SetMin(ss)].s)

\* the one-word labels of the pattern of scrapeCashPot
KnownLabels == {"Fish", "Goat", "Dog", "Married", "Mouth", "Duppy"}

p2_scrapeCashPot(html) ==
    LET sec == extractBetween(html, Heading("cash_pot"), HistoryHeading("cash_pot"))
        balls == extractBallNumbers(sec.toks)
        txt == cleanText(sec.toks)
        ls == { i \in 1..Len(txt) : IsWord(txt[i]) /\ txt[i].s \in KnownLabels }
        hs == { i \in 1..Len(sec.toks) : sec.toks[i].k = "hash" /\ sec.toks[i].n >= 1000 }
    IN  IF ~sec.found THEN NullRec
        ELSE [kind |-> "cash1", date |-> extractFullDate(sec.toks),
              drawTime |-> extractCashPotDrawTime(sec.toks),
              numbers |-> Take(balls, 1),
              note |-> (IF ls = {} THEN <<>> ELSE <<txt[SetMin(ls)]>>)
                       \o (IF hs = {} THEN <<>> ELSE <<sec.toks[SetMin(hs)]>>)]

\* scrapeLotto (main = 6) and scrapeSuperLotto (main = 5)
p2_scrapeLottoLike(html, g, main) ==
    LET sec == extractBetween(html, Heading(g), HistoryHeading(g))
        balls == extractBallNumbers(sec.toks)
    IN  IF ~sec.found THEN NullRec
        ELSE IF Len(Take(balls, main)) < main THEN NullRec
        ELSE [kind |-> "single", date |-> extractFullDate(sec.toks),
              numbers |-> Take(balls, main),
              bonus |-> IF Len(balls) >= main + 1 THEN {balls[main + 1]} ELSE {},
              jackpot |-> extractJackpot(sec.toks)]

p2_scrapeLotto(html) == p2_scrapeLottoLike(html, "lotto", 6)

p2_scrapeSuperLotto(html) == p2_scrapeLottoLike(html, "super_lotto", 5)

p2Record(page, g) ==
    CASE g = "cash_pot" -> p2_scrapeCashPot(HtmlOf(page))
      [] g = "lotto" -> p2_scrapeLotto(HtmlOf(page))
      [] OTHER -> p2_scrapeSuperLotto(HtmlOf(page))


(***************************************************************************)
(* src/scripts/update-lottery.js, lines 1-128                              *)
(***************************************************************************)
\* as extractBetween, start excluded
u_extractBetween(text, start, end) ==
    LET st == IndexOf(text, start, 1)
        e == IndexOf(text, end, st + Len(start))
    IN  IF st = 0 THEN [found |-> FALSE, toks |-> <<>>]
        ELSE IF e = 0 THEN [found |-> FALSE, toks |-> <<>>]
        ELSE [found |-> TRUE, toks |-> SubSeq(text, st + Len(start), e - 1)]

\* a token that holds four digits in a row
HasFourDigits(t) == t.k \in {"num", "hash"} /\ t.n >= 1000

\* /A|B|...|Z.*?\d{4}/ : the alternation binds weaker than the sequence, so
\* every day but the last matches as the bare name, and only the last day
\* (tail) is followed by the rest of the date up to the first four digits.
\* The match at position i, <<>> when there is none.
DayAltAt(text, i, bare, tail) ==
    IF ~IsWord(text[i]) THEN <<>>
    ELSE IF text[i].s \in bare THEN <<text[i]>>
    ELSE IF text[i].s = tail /\ \E j \in (i + 1)..Len(text) : HasFourDigits(text[j])
    THEN SubSeq(text, i, SetMin({ j \in (i + 1)..Len(text) : HasFourDigits(text[j]) }))
    ELSE <<>>

\* the first match of the pattern in the text, <<>> for null
DayAlt(text, bare, tail) ==
    LET ms == { i \in 1..Len(text) : DayAltAt(text, i, bare, tail) # <<>> }
    IN  IF ms = {} THEN <<>> ELSE DayAltAt(text, SetMin(ms), bare, tail)

\* /Next Jackpot:\s*\$[0-9A-Za-z]+/ (i: any case), the match or <<>>
JackpotNote(text, anyCase) ==
    LET t == IF anyCase THEN LowerToks(text) ELSE text
        lbl == IF anyCase THEN NextJackpotColon ELSE <<W("Next"), W("Jackpot"), Sym(":")>>
        js == { i \in 1..(Len(text) - 3) : SubSeq(t, i, i + 2) = lbl /\ text[i + 3].k = "amt" }
    IN  IF js = {} THEN <<>> ELSE SubSeq(text, SetMin(js), SetMin(js) + 3)

u1_scrapeCashPot(html) ==
    LET sec == u_extractBetween(html, Heading("cash_pot"), HistoryHeading("cash_pot"))
        latestSection == sec.toks
        dateMatch == DayAlt(latestSection, Weekdays \ {"Sunday"}, "Sunday")
        ts == { i \in 1..Len(latestSection) :
                  IsWord(latestSection[i])
                  /\ \E l \in 1..Len(Sessions) : latestSection[i].s = Sessions[l] }
        balls == extractBallNumbers(latestSection)
    IN  IF ~sec.found \/ latestSection = <<>> THEN NullRec
        ELSE IF dateMatch = <<>> \/ ts = {} \/ balls = <<>> THEN NullRec
        ELSE [kind |-> "cash1", date |-> dateMatch,
              drawTime |-> latestSection[SetMin(ts)].s,
              numbers |-> Take(balls, 1), note |-> <<>>]

\* scrapeLotto and scrapeSuperLotto: the section, its date pattern, the
\* count of main numbers
u1_scrapeLottoLike(html, g, bare, tail, main) ==
    LET sec == u_extractBetween(html, Heading(g), HistoryHeading(g))
        section == sec.toks
        dateMatch == DayAlt(section, bare, tail)
        numberMatches == Take(extractBallNumbers(section), main + 1)
    IN  IF ~sec.found \/ section = <<>> THEN NullRec
        ELSE IF dateMatch = <<>> \/ Len(numberMatches) < main THEN NullRec
        ELSE [kind |-> "single", date |-> dateMatch,
              numbers |-> Take(numberMatches, main),
              bonus |-> IF Len(numberMatches) > main THEN {numberMatches[main + 1]} ELSE {},
              jackpot |-> JackpotNote(section, FALSE)]

u1_scrapeLotto(html) == u1_scrapeLottoLike(html, "lotto", {"Saturday"}, "Wednesday", 6)

u1_scrapeSuperLotto(html) == u1_scrapeLottoLike(html, "super_lotto", {"Tuesday"}, "Friday", 5)

u1Record(page, g) ==
    CASE g = "cash_pot" -> u1_scrapeCashPot(HtmlOf(page))
      [] g = "lotto" -> u1_scrapeLotto(HtmlOf(page))
      [] OTHER -> u1_scrapeSuperLotto(HtmlOf(page))

(***************************************************************************)
(* src/scripts/update-lottery.js, lines 130-307                            *)
(***************************************************************************)
stripHtml(page) == TextOf(HtmlOf(page))

\* drawRe at position i: the set of the entry it matches there, if any
drawRe(text, i) ==
    LET w == WordRun(text, i + 4)
        c == i + 4 + w
        isColor(t) == IsWord(t) /\ Lower(t.s) \in Colors7
    IN  IF /\ IsSession(text[i])
           /\ i + 3 <= Len(text)
           /\ text[i + 1].k = "time"
           /\ text[i + 2].k = "hash"
           /\ text[i + 3].k = "num" /\ text[i + 3].n < 100
           /\ w >= 1
           /\ c + 3 <= Len(text)
           /\ text[c] = Sym("+") /\ isColor(text[c + 1])
           /\ text[c + 2] = Sym("+") /\ isColor(text[c + 3])
        THEN {Entry(Upper(text[i].s), {text[i + 1].s}, {text[i + 2].n}, {text[i + 3].n},
                    [x \in 1..w |-> text[i + 3 + x].s],
                    <<Lower(text[c + 1].s), Lower(text[c + 3].s)>>)}
        ELSE {}

\* the entries of all the matches of drawRe in the text, in text order
drawReAll(text) ==
    LET hits == SelectSeq([i \in 1..Len(text) |-> i], LAMBDA i : drawRe(text, i) # {})
    IN  [x \in 1..Len(hits) |-> CHOOSE e \in drawRe(text, hits[x]) : TRUE]

u2_scrapeCashPot(page) ==
    LET text == stripHtml(page)
        sec == u_extractBetween(text, Heading("cash_pot"), PlayMarker)
        section == sec.toks
        ds == { i \in 1..Len(section) : WeekdayDateAt(section, i) }
        draws == drawReAll(section)
    IN  IF ~sec.found \/ section = <<>> THEN NullRec
        ELSE IF ds = {} THEN NullRec
        ELSE IF draws = <<>> THEN NullRec
        ELSE [kind |-> "multi", date |-> SubSeq(section, SetMin(ds), SetMin(ds) + 4),
              latest |-> <<>>, draws |-> draws]

\* /\d{1,2}\s+[A-Za-z]+\s+\d{4},\s+(Monday|...|Sunday)/ at position i
CommaDateAt(text, i) ==
    /\ i + 4 <= Len(text)
    /\ text[i].k \in {"num", "hash"}
    /\ IsWord(text[i + 1])
    /\ text[i + 2].k = "num" /\ text[i + 2].n >= 1000 /\ text[i + 2].n < 10000
    /\ text[i + 3] = Sym(",")
    /\ IsWord(text[i + 4]) /\ text[i + 4].s \in Weekdays

\* scrapeLotto and scrapeSuperLotto: the word(s) the numbers are looked up
\* after, the count of main numbers
u2_scrapeLottoLike(page, word, main) ==
    LET text == stripHtml(page)
        ds == { i \in 1..Len(text) : CommaDateAt(text, i) }
        d == SetMin(ds)
        idx == IndexOf(LowerToks(text), word, 1)
        after == IF idx > 0 THEN Drop(text, idx - 1) ELSE text
        numsAfter == Take(Values(SelectSeq(after, IsInt2)), main + 1)
    IN  IF ds = {} \/ Len(numsAfter) < main THEN NullRec
        ELSE [kind |-> "single",
              date |-> <<Num(text[d].n % 100), text[d + 1], text[d + 2], text[d + 4]>>,
              numbers |-> Take(numsAfter, main),
              bonus |-> IF Len(numsAfter) > main THEN {numsAfter[main + 1]} ELSE {},
              jackpot |-> JackpotNote(text, TRUE)]

u2_scrapeLotto(page) == u2_scrapeLottoLike(page, <<W("lotto")>>, 6)

u2_scrapeSuperLotto(page) == u2_scrapeLottoLike(page, <<W("super"), W("lotto")>>, 5)

u2Record(page, g) ==
    CASE g = "cash_pot" -> u2_scrapeCashPot(page)
      [] g = "lotto" -> u2_scrapeLotto(page)
      [] OTHER -> u2_scrapeSuperLotto(page)


(***************************************************************************)
(* src/unnamed/part_003                                                    *)
(***************************************************************************)
RECURSIVE Digits(_)
Digits(n) == IF n < 10 THEN 1 ELSE 1 + Digits(n \div 10)

\* the number of characters of a token
TokLen(t) ==
    CASE t.k \in {"w", "time", "amt", "sym"} -> Len(t.s)
      [] t.k = "hash" -> 1 + Digits(t.n)
      [] OTHER -> Digits(t.n)

RECURSIVE CharLen(_)
\* the number of characters of a text, one space between two tokens
CharLen(toks) ==
    IF toks = <<>> THEN 0
    ELSE TokLen(Head(toks)) + (IF Len(toks) > 1 THEN 1 ELSE 0) + CharLen(Tail(toks))

\* pageText.slice(idx, idx + windowSize): the tokens that fit in the window
Window(pageText, idx, windowSize) ==
    SubSeq(pageText, idx,
           SetMax({ e \in (idx - 1)..Len(pageText) :
                      CharLen(SubSeq(pageText, idx, e)) <= windowSize }))

\* the first count numbers of one or two digits of the window after the
\* label, <<>> when the label is not in the page
extractNumbersAfterLabel(pageText, label, count, windowSize) ==
    LET idx == IndexOf(LowerToks(pageText), LowerToks(label), 1)
        windowText == Window(pageText, idx, windowSize)
    IN  IF idx = 0 THEN <<>>
        ELSE Take(Values(SelectSeq(windowText, IsInt2)), count)

\* /bonus\s*[:\-]?\s*(\d{1,2})/i in the window after the label; {} for null
extractBonusAfterLabel(pageText, label, windowSize) ==
    LET idx == IndexOf(LowerToks(pageText), LowerToks(label), 1)
        w == Window(pageText, idx, windowSize)
        at(i) == /\ IsWord(w[i]) /\ Lower(w[i].s) = "bonus"
                 /\ \/ i + 1 <= Len(w) /\ w[i + 1].k = "num"
                    \/ i + 2 <= Len(w) /\ w[i + 1] = Sym(":") /\ w[i + 2].k = "num"
        bs == { i \in 1..Len(w) : at(i) }
        b == SetMin(bs)
    IN  IF idx = 0 \/ bs = {} THEN {}
        ELSE {LeadingTwo(IF w[b + 1].k = "num" THEN w[b + 1].n ELSE w[b + 2].n)}

\* the part of an amount that /(?:J\$|\$)\s*[\d,]+(?:\.\d{2})?/ matches
AmountDigits(a) == IF a = "$39M" THEN "$39" ELSE a

extractJackpotAfterLabel(pageText, label, windowSize) ==
    LET idx == IndexOf(LowerToks(pageText), LowerToks(label), 1)
        w == Window(pageText, idx, windowSize)
        as == { i \in 1..Len(w) : w[i].k = "amt" }
    IN  IF idx = 0 \/ as = {} THEN <<>> ELSE <<Amt(AmountDigits(w[SetMin(as)].s))>>

Months == {"January", "February", "March", "April", "May", "June", "July", "August",
           "September", "October", "November", "December"}

\* "15 February 2026": the only one of the three patterns the pages can match
extractDate(pageText) ==
    LET at(i) == /\ i + 2 <= Len(pageText)
                 /\ pageText[i].k = "num" /\ pageText[i].n < 100
                 /\ IsWord(pageText[i + 1]) /\ pageText[i + 1].s \in Months
                 /\ pageText[i + 2].k = "num"
                 /\ pageText[i + 2].n >= 1000 /\ pageText[i + 2].n < 10000
        ds == { i \in 1..Len(pageText) : at(i) }
    IN  IF ds = {} THEN <<>> ELSE SubSeq(pageText, SetMin(ds), SetMin(ds) + 2)

\* the record of one game in the output of the script
p3Record(page, g) ==
    LET pageText == BodyText(page)
    IN  CASE g = "cash_pot" ->
               [kind |-> "cash5", date |-> extractDate(pageText),
                latest |-> extractNumbersAfterLabel(pageText, <<W("Cash"), W("Pot")>>, 5, 400),
                draws |-> <<>>]
          [] g = "lotto" ->
               [kind |-> "single", date |-> extractDate(pageText),
                numbers |-> extractNumbersAfterLabel(pageText, <<W("Lotto")>>, 6, 400),
                bonus |-> extractBonusAfterLabel(pageText, <<W("Lotto")>>, 500),
                jackpot |-> extractJackpotAfterLabel(pageText, <<W("Lotto")>>, 800)]
          [] OTHER ->
               [kind |-> "single", date |-> extractDate(pageText),
                numbers |-> extractNumbersAfterLabel(pageText, <<W("Super"), W("Lotto")>>, 6, 400),
                bonus |-> extractBonusAfterLabel(pageText, <<W("Super"), W("Lotto")>>, 500),
                jackpot |-> extractJackpotAfterLabel(pageText, <<W("Super"), W("Lotto")>>, 800)]

(***************************************************************************)
(* A run of a script                                                       *)
(***************************************************************************)
Scripts == {"p0", "p1", "p2", "p3", "u1", "u2"}

\* the pages a script fetches: one page with every game, or one page a game
Urls(v) == IF v \in {"p1", "u2"} THEN GameSet ELSE {"all"}

Outcomes == {"ok", "http_error", "net_error"}

\* fetchHtml of part_000, part_001 and part_003 and fetchHTML of part_002
\* throw on a response that is not OK
fetchHtml(outcome) == IF outcome = "ok" THEN "page" ELSE "throw"

\* fetchHTML of update-lottery.js returns the body of any response
u_fetchHTML(outcome) ==
    CASE outcome = "ok" -> "page" [] outcome = "http_error" -> "error_page"
      [] OTHER -> "throw"

Fetch(v, outcome) == IF v \in {"u1", "u2"} THEN u_fetchHTML(outcome) ELSE fetchHtml(outcome)

\* the page behind a url of a scenario
Served(sc, u, body) ==
    IF body = "error_page" THEN ErrorPage
    ELSE PageFor(sc, IF u = "all" THEN GameSet ELSE {u})

UrlOf(v, g) == IF v \in {"p1", "u2"} THEN g ELSE "all"

\* the record a script computes for game g from the page
Record(v, page, g) ==
    CASE v = "p0" -> p0Record(page, g)
      [] v = "p1" -> p1Record(page, g)
      [] v = "p2" -> p2Record(page, g)
      [] v = "p3" -> p3Record(page, g)
      [] v = "u1" -> u1Record(page, g)
      [] OTHER -> u2Record(page, g)

Pending == [kind |-> "pending"]

VARIABLES script, sc, net, html, pc, next, games, file, writes, exitCode, log

vars == <<script, sc, net, html, pc, next, games, file, writes, exitCode, log>>

NoFile == [written |-> FALSE]

Init ==
    /\ script \in Scripts
    /\ \/ sc \in Scenarios /\ net = [u \in Urls(script) |-> "ok"]
       \/ sc = BaseScenario /\ net \in [Urls(script) -> Outcomes]
    /\ html = [u \in Urls(script) |-> "pending"]
    /\ pc = "fetch"
    /\ next = 1
    /\ games = [g \in GameSet |-> Pending]
    /\ file = NoFile
    /\ writes = 0
    /\ exitCode = -1
    /\ log = <<>>

\* a fetch completes with a body; when it was the last one, the awaited
\* Promise.all resolves and extraction starts
FetchResolve(u) ==
    /\ pc = "fetch"
    /\ html[u] = "pending"
    /\ Fetch(script, net[u]) # "throw"
    /\ html' = [html EXCEPT ![u] = Fetch(script, net[u])]
    /\ pc' = IF \A x \in Urls(script) \ {u} : html[x] # "pending" THEN "extract" ELSE "fetch"
    /\ UNCHANGED <<script, sc, net, next, games, file, writes, exitCode, log>>

\* a fetch throws: the awaited promise rejects, the catch handler logs the
\* error and calls process.exit(1)
FetchReject(u) ==
    /\ pc = "fetch"
    /\ html[u] = "pending"
    /\ Fetch(script, net[u]) = "throw"
    /\ html' = [html EXCEPT ![u] = "failed"]
    /\ log' = Append(log, "failed")
    /\ exitCode' = 1
    /\ pc' = "done"
    /\ UNCHANGED <<script, sc, net, next, games, file, writes>>

\* a variant of the loop that saves the document after every game
ExtractAndWrite ==
    /\ pc = "extract"
    /\ LET g == Games[next]
       IN  /\ games' = [games EXCEPT
                         ![g] = Record(script, Served(sc, UrlOf(script, g), html[UrlOf(script, g)]), g)]
           /\ file' = [written |-> TRUE, games |-> games']
    /\ writes' = writes + 1
    /\ next' = next + 1
    /\ pc' = IF next = Len(Games) THEN "written" ELSE "extract"
    /\ UNCHANGED <<script, sc, net, html, exitCode, log>>

\* the extraction of the next game
Extract ==
    /\ pc = "extract"
    /\ LET g == Games[next]
       IN  games' = [games EXCEPT
                       ![g] = Record(script, Served(sc, UrlOf(script, g), html[UrlOf(script, g)]), g)]
    /\ next' = next + 1
    /\ pc' = IF next = Len(Games) THEN "write" ELSE "extract"
    /\ UNCHANGED <<script, sc, net, html, file, writes, exitCode, log>>

\* fs.writeFile of the output document
Write ==
    /\ pc = "write"
    /\ file' = [written |-> TRUE, games |-> games]
    /\ writes' = writes + 1
    /\ log' = Append(log, "updated")
    /\ pc' = "written"
    /\ UNCHANGED <<script, sc, net, html, next, games, exitCode>>

\* the script ends: nothing is pending, the process exits with status 0
Finish ==
    /\ pc = "written"
    /\ exitCode' = 0
    /\ pc' = "done"
    /\ UNCHANGED <<script, sc, net, html, next, games, file, writes, log>>

Next ==
    \/ \E u \in Urls(script) : FetchResolve(u)
    \/ \E u \in Urls(script) : FetchReject(u)
    \/ Extract
    \/ Write
    \/ Finish

Spec == Init /\ [][Next]_vars

TypeOK ==
    /\ script \in Scripts
    /\ pc \in {"fetch", "extract", "write", "written", "done"}
    /\ exitCode \in {-1, 0, 1}
    /\ writes \in 0..1


(***************************************************************************)
(* Properties                                                              *)
(***************************************************************************)
SingleGames == {"lotto", "super_lotto"}

AllOk == \A u \in Urls(script) : net[u] = "ok"

\* a record that stands for "no data for this game"
Absent(r) == r.kind \in {"null", "error"}

\* the section of game g is the only section of the page the script reads
Alone(g) == script \in {"p1", "u2"} \/ \A h \in GameSet \ {g} : ~sc.present[h]

\* the balls the site shows for a game, as numbers
Shown(g) == extractBallNumbers(BallToks(g, sc.nb[g]))

\* the text of the section of a game, between its heading and the next one
SectionText(g) ==
    LET sec == getSectionNodes(PageFor(sc, {g}), Heading(g))
    IN  Concat([i \in 1..Len(sec.nodes) |-> TextOf(sec.nodes[i].toks)])

\* the entries of a record for a session
EntriesOf(r, s) ==
    IF r.kind # "multi" THEN {}
    ELSE { r.draws[i] : i \in { x \in 1..Len(r.draws) : r.draws[x].session = s } }

\* C1: on a page that lacks the heading of a game, part_000 and part_002
\* still write the document and exit 0, the record of that game is absent
\* and the record of every other game is the one computed from its own
\* section alone
C1_AbsentHeadingIsolated ==
    (script \in {"p0", "p2"} /\ pc = "done" /\ AllOk) =>
        \A g \in GameSet : ~sc.present[g] =>
            /\ file.written /\ exitCode = 0
            /\ Absent(file.games[g])
            /\ \A h \in GameSet \ {g} :
                  sc.present[h] => file.games[h] = Record(script, PageFor(sc, {h}), h)

\* C2: a single-draw section that shows fewer numbers than the game has main
\* numbers yields no numbers field at all in part_000, part_001 and part_003,
\* in the extractor and in the written document
C2_TooFewNumbersAbsent ==
    (script \in {"p0", "p1", "p3"} /\ AllOk /\ file.written) =>
        \A g \in SingleGames :
            (sc.present[g] /\ Alone(g) /\ sc.nb[g] < Arity(g)) => Absent(file.games[g])

\* C3: a single-draw section that shows exactly N + 1 numbers yields the first
\* N as main numbers, in order, and the last one as bonus, for Lotto (N = 6)
\* and Super Lotto (N = 5), in part_000, part_002 and update-lottery.js
C3_MainAndBonus ==
    (script \in {"p0", "p2", "u1"} /\ AllOk /\ file.written /\ sc.hist) =>
        \A g \in SingleGames :
            (sc.present[g] /\ Alone(g) /\ sc.nb[g] = Arity(g) + 1) =>
                /\ file.games[g].kind = "single"
                /\ file.games[g].numbers = Take(Shown(g), Arity(g))
                /\ file.games[g].bonus = {Shown(g)[Arity(g) + 1]}

\* the entry of draws with a value whose session is last in canonical order
CanonicalLatest(draws) ==
    LET c == { i \in 1..Len(draws) : draws[i].value # {} }
    IN  IF c = {} THEN <<>>
        ELSE <<draws[CHOOSE i \in c : \A x \in c :
                        SessionRank(draws[x].session) <= SessionRank(draws[i].session)]>>

\* C4: the latest entry of a Cash Pot record of part_000 and part_001 is the
\* entry with a value whose session is last in canonical order, whatever the
\* order of the sessions on the page, and never an entry without a value
C4_LatestIsCanonical ==
    (script \in {"p0", "p1"} /\ AllOk /\ file.written /\ file.games["cash_pot"].kind = "multi") =>
        file.games["cash_pot"].latest = CanonicalLatest(file.games["cash_pot"].draws)

\* C5: when the fetch of one of the three pages fails, part_001 and the
\* three-page update-lottery.js still extract and write the other two games,
\* and only the record of the failed game is absent
C5_FetchFailureIsolated ==
    (script \in {"p1", "u2"} /\ pc = "done") =>
        \A u \in GameSet :
            (net[u] # "ok" /\ \A x \in GameSet \ {u} : net[x] = "ok") =>
                /\ file.written
                /\ Absent(file.games[u])
                /\ \A x \in GameSet \ {u} :
                      file.games[x] = Record(script, PageFor(sc, {x}), x)

\* the Cash Pot record of the script for the page of the scenario in which
\* draw i is shown as v
CashRecordWith(i, v) ==
    Record(script, PageFor([sc EXCEPT !.draws[i].v = v], GameSet), "cash_pot")

\* C6: a session shown as "?" yields an entry without value for that session,
\* and the entries for it differ from those of the same session with its
\* value cell missing and with a drawn value
C6_UnknownMarkerEntry ==
    (script \in {"p0", "p1", "u2"} /\ AllOk /\ file.written /\ sc.present["cash_pot"] /\ sc.hist) =>
        \A i \in 1..Len(sc.draws) :
            sc.draws[i].v = "unk" =>
                /\ \E e \in EntriesOf(file.games["cash_pot"], sc.draws[i].s) : e.value = {}
                /\ EntriesOf(file.games["cash_pot"], sc.draws[i].s)
                      # EntriesOf(CashRecordWith(i, "none"), sc.draws[i].s)
                /\ EntriesOf(file.games["cash_pot"], sc.draws[i].s)
                      # EntriesOf(CashRecordWith(i, "num"), sc.draws[i].s)

\* C7: in a written document of part_000, part_001 and part_003 a single-draw
\* record is absent or has exactly 6 (Lotto) or 5 (Super Lotto) numbers
C7_NumbersHaveArity ==
    (script \in {"p0", "p1", "p3"} /\ AllOk /\ file.written) =>
        \A g \in SingleGames :
            Absent(file.games[g]) \/ Len(file.games[g].numbers) = Arity(g)

\* "Saturday | 14 February 2026 7 8 18 31 32 34 + 24 Next Jackpot: $39M"
C8Text ==
    <<W("Saturday"), Sym("|"), Num(14), W("February"), Num(2026), Num(7), Num(8), Num(18),
      Num(31), Num(32), Num(34), Sym("+"), Num(24), W("Next"), W("Jackpot"), Sym(":"),
      Amt("$39M")>>

\* C8: for that section text part_000, part_001 and part_002 return the
\* numbers 7 8 18 31 32 34, the bonus 24, a jackpot text with "$39M" and a
\* date with "14 February 2026"
C8_LottoScenario ==
    (script \in {"p0", "p1", "p2"} /\ AllOk /\ file.written /\ sc.present["lotto"] /\ sc.hist
       /\ Alone("lotto") /\ SectionText("lotto") = C8Text) =>
        /\ file.games["lotto"].kind = "single"
        /\ file.games["lotto"].numbers = <<7, 8, 18, 31, 32, 34>>
        /\ file.games["lotto"].bonus = {24}
        /\ IndexOf(file.games["lotto"].jackpot, <<Amt("$39M")>>, 1) # 0
        /\ IndexOf(file.games["lotto"].date, <<Num(14), W("February"), Num(2026)>>, 1) # 0

\* "EARLYBIRD 8:30AM #37103 30 Fish + white + white"
C9Text ==
    <<W("EARLYBIRD"), Clock(8, "8:30AM"), Hash(37103), Num(30), W("Fish"), Sym("+"),
      W("white"), Sym("+"), W("white")>>

\* C9: for a Cash Pot section with that line part_000, part_001 and the
\* three-page update-lottery.js return exactly one entry: EARLYBIRD, draw
\* number 37103, value 30, label Fish, colors white white
C9_CashPotScenario ==
    (script \in {"p0", "p1", "u2"} /\ AllOk /\ file.written /\ sc.present["cash_pot"] /\ sc.hist
       /\ Alone("cash_pot") /\ SectionText("cash_pot") = DateBar(DrawDay("cash_pot", sc.dv)) \o C9Text) =>
        /\ file.games["cash_pot"].kind = "multi"
        /\ Len(file.games["cash_pot"].draws) = 1
        /\ file.games["cash_pot"].draws[1].session = "EARLYBIRD"
        /\ file.games["cash_pot"].draws[1].drawNo = {37103}
        /\ file.games["cash_pot"].draws[1].value = {30}
        /\ file.games["cash_pot"].draws[1].label = <<"Fish">>
        /\ file.games["cash_pot"].draws[1].colors = <<"white", "white">>

\* C10: when the fetch of the page fails, by a network error or by a response
\* that is not OK, part_000 and the one-page update-lottery.js log the error
\* and exit non-zero without writing the file; when the fetch succeeds the
\* exit status is 0 whatever the extraction gives
C10_FetchFailureIsFatal ==
    (script \in {"p0", "u1"} /\ pc = "done") =>
        /\ net["all"] # "ok" => (exitCode = 1 /\ ~file.written /\ log = <<"failed">>)
        /\ net["all"] = "ok" => exitCode = 0

\* every fetch of the run has completed with a body
AllFetched == \A u \in Urls(script) : html[u] \in {"page", "error_page"}

\* the extractor of every game has returned
AllExtracted == \A g \in GameSet : games[g] # Pending

\* C11: in every run the output file is written at most once, and a write
\* happens only in a state where every fetch has completed and the extractor
\* of every game has returned; the written document holds those records
C11_WriteOnceAfterAll ==
    /\ [](writes <= 1 /\ (file.written => (writes = 1 /\ AllFetched /\ AllExtracted)))
    /\ [][(writes' # writes \/ file' # file) =>
              (writes = 0 /\ writes' = 1 /\ AllFetched /\ AllExtracted
                 /\ file'.written /\ file'.games = games)]_vars

\* a finished three-page run that wrote its document
C11_Witness ==
    /\ script = "p1" /\ pc = "done" /\ exitCode = 0
    /\ writes = 1 /\ file.written /\ AllFetched /\ AllExtracted

\* the page of the run of a one-page script
ThePage == PageFor(sc, GameSet)

\* the section the locator of the script returns for game g on the page
Located(g) ==
    CASE script = "p0" ->
           LET r == getSectionNodes(ThePage, Heading(g))
           IN  [found |-> r.found,
                toks |-> Concat([i \in 1..Len(r.nodes) |-> r.nodes[i].toks])]
      [] script = "p2" -> extractBetween(HtmlOf(ThePage), Heading(g), HistoryHeading(g))
      [] OTHER -> u_extractBetween(HtmlOf(ThePage), Heading(g), HistoryHeading(g))

\* the positions of the page at which the heading of game g stands
HeadingAt(g) ==
    { i \in 1..Len(ThePage) : ThePage[i].tag = "h2" /\ ThePage[i].toks = Heading(g) }

\* no heading and no "History" marker follows the heading of game g
NoBoundaryAfter(g) ==
    \A i \in HeadingAt(g) : \A j \in (i + 1)..Len(ThePage) : ThePage[j].tag # "h2"

\* s ends the document
IsSuffix(s, doc) == Len(s) <= Len(doc) /\ s = SubSeq(doc, Len(doc) - Len(s) + 1, Len(doc))

\* C12: on every page on which the heading of a game stands, the locator of
\* part_000, part_002 and the one-page update-lottery.js returns a span; when
\* no heading and no "History" marker follows, the span runs to the end of
\* the document; "not found" is never returned for a heading that stands on
\* the page
C12_LocatorFindsHeading ==
    (script \in {"p0", "p2", "u1"} /\ AllOk /\ file.written) =>
        \A g \in GameSet :
            /\ HeadingAt(g) # {} => Located(g).found
            /\ (HeadingAt(g) # {} /\ NoBoundaryAfter(g)) =>
                   (Located(g).found /\ Located(g).toks # <<>>
                      /\ IsSuffix(Located(g).toks, HtmlOf(ThePage)))

\* the numbers that stand in the section of game g on the page
SectionNums(g) ==
    LET toks == HtmlOf(SectionBlocks(sc, g))
    IN  { toks[i].n : i \in { x \in 1..Len(toks) : toks[x].k \in {"num", "ball"} } }

\* the main numbers of a record, none for a record without numbers
NumbersOf(r) ==
    IF r.kind = "single" THEN { r.numbers[i] : i \in 1..Len(r.numbers) } ELSE {}

\* C13: on a page that holds both the "Super Lotto Result" and the "Lotto
\* Result" section, in either order, every number of the Lotto record of
\* part_002, part_003 and the one-page update-lottery.js stands in the Lotto
\* section and every number of the Super Lotto record in the Super Lotto
\* section
C13_LottoNotSuperLotto ==
    (script \in {"p2", "p3", "u1"} /\ AllOk /\ file.written
       /\ sc.present["lotto"] /\ sc.present["super_lotto"]) =>
        \A g \in SingleGames : NumbersOf(file.games[g]) \subseteq SectionNums(g)

\* the numbers drawn for game g: the 1-2 digit tokens between the date and
\* the jackpot marker of its section
DrawnNums(g) == { Shown(g)[i] : i \in 1..Len(Shown(g)) }

\* C14: every main number and the bonus of a single-draw record of
\* part_000, part_003 and the three-page update-lottery.js is one of the
\* numbers that stand after the date and before the jackpot marker of the
\* section: never a digit of the date or of the jackpot amount, also when
\* the section shows exactly N numbers and no bonus
C14_NoDateOrJackpotDigits ==
    (script \in {"p0", "p3", "u2"} /\ AllOk /\ file.written) =>
        \A g \in SingleGames :
            (sc.present[g] /\ Alone(g) /\ file.games[g].kind = "single") =>
                /\ NumbersOf(file.games[g]) \subseteq DrawnNums(g)
                /\ file.games[g].bonus \subseteq DrawnNums(g)

\* C15: for every weekday name that starts the date line of a section, the
\* drawDate that scrapeCashPot, scrapeLotto and scrapeSuperLotto of the
\* one-page update-lottery.js return holds the day, the month name and the
\* four-digit year of that line
C15_DrawDateIsFullDate ==
    (script = "u1" /\ AllOk /\ file.written /\ sc.fmt = "bar" /\ sc.hist) =>
        \A g \in GameSet :
            (sc.present[g] /\ Alone(g) /\ ~Absent(file.games[g])) =>
                IndexOf(file.games[g].date, <<Num(14), W("February"), Num(2026)>>, 1) # 0

\* the number drawn in draw d of the page: none for a session that is shown
\* as "?" or without a value
OwnValue(d) == IF d.v = "num" THEN {SessionVal(d.s)} ELSE {}

\* C16: the value parseMultiDraw of part_000 records for a session is the
\* number drawn in that session or null: a session without a number of its
\* own has the value null, never a number of a later session, of a clock
\* time or of a draw number after "#"
C16_ValueFromOwnSession ==
    (script = "p0" /\ AllOk /\ file.written /\ sc.present["cash_pot"]) =>
        \A i \in 1..Len(sc.draws) :
            \A e \in EntriesOf(file.games["cash_pot"], sc.draws[i].s) :
                e.value \subseteq OwnValue(sc.draws[i])


====
